---- MODULE Spec2Model ----
(***************************************************************************)
(* A model of the prover of z3rro (src/z3rro/src/prover.rs): a scoped      *)
(* stack of assumptions and proof obligations over an SMT solver, the      *)
(* validity check with its two backends (Z3 in-process, SWINE as a         *)
(* subprocess), and the exists-forall transform.                           *)
(***************************************************************************)
EXTENDS Integers, Sequences, FiniteSets, TLC

(***************************************************************************)
(* Bounds of the model.                                                    *)
(***************************************************************************)
\* scopes open on one prover at a time
MaxLevel == 2
\* formulas held by one solver at a time
MaxAssertions == 2
\* calls made in a run that derives an exists-forall prover
MaxSteps == 5

(***************************************************************************)
(* Formulas: the terms of z3::ast::Bool that the prover is handed and the  *)
(* ones it builds itself (not, and, forall_const).                         *)
(***************************************************************************)
Vars == {"p", "q"}

Assignments == [Vars -> BOOLEAN]

Atom(op, name) == [op |-> op, name |-> name, args |-> <<>>, bound |-> {}]

True == Atom("true", "")

False == Atom("false", "")

Const(v) == Atom("const", v)

\* Bool::not
Not(f) == [op |-> "not", name |-> "", args |-> <<f>>, bound |-> {}]

\* Bool::and over a slice of formulas (the empty conjunction is true)
And(fs) == [op |-> "and", name |-> "", args |-> fs, bound |-> {}]

\* forall_const(ctx, bounds, [], body)
forall_const(universal, body) ==
    [op |-> "forall", name |-> "", args |-> <<body>>, bound |-> universal]

\* The formulas callers hand to add_assumption, add_provable and
\* check_proof_assuming.
Formulas ==
    {False, Const("p"), Not(Const("p")), forall_const({"q"}, Const("q"))}

RECURSIVE Holds(_, _)
\* The truth value of formula f under assignment a (the semantics the
\* backends decide).
Holds(f, a) ==
    CASE f.op = "true" -> TRUE
      [] f.op = "false" -> FALSE
      [] f.op = "const" -> a[f.name]
      [] f.op = "not" -> ~Holds(f.args[1], a)
      [] f.op = "and" -> \A i \in 1..Len(f.args) : Holds(f.args[i], a)
      [] f.op = "forall" ->
            \A b \in Assignments :
                (\A v \in Vars \ f.bound : b[v] = a[v]) => Holds(f.args[1], b)

\* The assignments that satisfy every formula of the sequence fs.
Models(fs) == {a \in Assignments : \A i \in 1..Len(fs) : Holds(fs[i], a)}

RECURSIVE Flatten(_)
Flatten(frames) ==
    IF frames = <<>> THEN <<>> ELSE Head(frames) \o Flatten(Tail(frames))

(***************************************************************************)
(* Text: a string is a sequence of one-character strings.                  *)
(***************************************************************************)
\* str::contains
contains(text, pat) ==
    \E i \in 0..(Len(text) - Len(pat)) :
        \A j \in 1..Len(pat) : text[i + j] = pat[j]

S_unsat == <<"u", "n", "s", "a", "t">>

S_sat == <<"s", "a", "t">>

S_unknown == <<"u", "n", "k", "n", "o", "w", "n">>

S_forall == <<"f", "o", "r", "a", "l", "l">>

S_declare_fun == <<"d", "e", "c", "l", "a", "r", "e", "-", "f", "u", "n">>

S_declare_fun_exp == S_declare_fun \o <<" ", "e", "x", "p">>

S_assert == <<"a", "s", "s", "e", "r", "t">>

S_check_sat == <<"c", "h", "e", "c", "k", "-", "s", "a", "t">>

S_Bool == <<"B", "o", "o", "l">>

S_true == <<"t", "r", "u", "e">>

S_false == <<"f", "a", "l", "s", "e">>

S_not == <<"n", "o", "t">>

S_and == <<"a", "n", "d">>

RECURSIVE Concat(_)
Concat(texts) ==
    IF texts = <<>> THEN <<>> ELSE Head(texts) \o Concat(Tail(texts))

\* A fixed order of the declared constants, for rendering.
VarOrder == <<"p", "q">>

RECURSIVE RenderArgs(_, _)
RECURSIVE Render(_)
\* The SMT-LIB text of a formula.
Render(f) ==
    CASE f.op = "true" -> S_true
      [] f.op = "false" -> S_false
      [] f.op = "const" -> <<f.name>>
      [] f.op = "not" -> <<"(">> \o S_not \o <<" ">> \o Render(f.args[1]) \o <<")">>
      [] f.op = "and" ->
            IF f.args = <<>> THEN S_true
            ELSE <<"(">> \o S_and \o RenderArgs(f.args, 1) \o <<")">>
      [] f.op = "forall" ->
            <<"(">> \o S_forall \o <<" ", "(">>
            \o Concat([i \in 1..Len(VarOrder) |->
                    IF VarOrder[i] \in f.bound
                    THEN <<"(", VarOrder[i], " ">> \o S_Bool \o <<")">>
                    ELSE <<>>])
            \o <<")", " ">> \o Render(f.args[1]) \o <<")">>

RenderArgs(fs, i) ==
    IF i > Len(fs) THEN <<>> ELSE <<" ">> \o Render(fs[i]) \o RenderArgs(fs, i + 1)

\* One (assert ...) command.
RenderAssertion(f) ==
    <<"(">> \o S_assert \o <<" ">> \o Render(f) \o <<")">>

\* One (declare-fun v () Bool) command.
RenderDeclaration(v) ==
    <<"(">> \o S_declare_fun \o <<" ", v, " ", "(", ")", " ">> \o S_Bool
    \o <<")">>

\* Smtlib::from_solver followed by add_check_sat: the commands of the text,
\* in order: the declarations, one assert command per assertion of the
\* solver (of every open scope), and the check-sat command.
get_smtlib(assertions) ==
    [i \in 1..Len(VarOrder) |-> RenderDeclaration(VarOrder[i])]
    \o [i \in 1..Len(assertions) |-> RenderAssertion(assertions[i])]
    \o << <<"(">> \o S_check_sat \o <<")">> >>

RECURSIVE remove_lines_scan(_, _, _, _)
\* The loop of remove_lines_for_swine over the characters still to read.
remove_lines_scan(input_buffer, tmp_buffer, cnt, output) ==
    IF input_buffer = <<>> THEN output
    ELSE
        LET c == Head(input_buffer)
            tmp == Append(tmp_buffer, c)
            rest == Tail(input_buffer)
        IN  CASE c = "(" -> remove_lines_scan(rest, tmp, cnt + 1, output)
              [] c = ")" ->
                    IF cnt - 1 = 0
                    THEN remove_lines_scan(rest, <<>>, 0,
                            IF ~contains(tmp, S_declare_fun_exp) /\ ~contains(tmp, S_forall)
                            THEN output \o tmp ELSE output)
                    ELSE remove_lines_scan(rest, tmp, cnt - 1, output)
              [] OTHER -> remove_lines_scan(rest, tmp, cnt, output)

\* remove_lines_for_swine
remove_lines_for_swine(input) == remove_lines_scan(input, <<>>, 0, <<>>)

\* A classification that looks for "sat" first.
execute_swine_sat_first(stdout) ==
    IF contains(stdout, S_sat) THEN "Sat"
    ELSE IF contains(stdout, S_unsat) THEN "Unsat"
    ELSE "Unknown"

\* execute_swine, on the standard output of a process that was launched
execute_swine(stdout) ==
    IF contains(stdout, S_unsat) THEN "Unsat"
    ELSE IF contains(stdout, S_sat) THEN "Sat"
    ELSE "Unknown"

(***************************************************************************)
(* State.                                                                  *)
(***************************************************************************)
VARIABLES
    provers,   \* the Prover objects: the one under use and the derived one
    solvers,   \* the z3::Solver objects of the context, by handle
    status,    \* the process: "running", "panicked" or "exited"
    last,      \* the most recent call and what it returned
    net,       \* history: push calls minus pop calls made on each prover
    saved,     \* history: each prover's state when each open scope was pushed
    asked,     \* history: whether add_provable was ever called on each prover
    steps,     \* history: calls made so far (counted where a run is bounded)
    instrumented,  \* the InstrumentedModel a counterexample handed out
    open,      \* the atomically calls under way, the outermost first
    ev,        \* the most recent call on the model and what it returned
    io         \* the most recent call of a text function and what it returned

\* The variables of the model and the text functions.
wvars == <<instrumented, open, ev, io>>

vars == <<provers, solvers, status, last, net, saved, asked, steps, wvars>>

ProverIds == {"main", "derived"}

SolverType == {"Z3", "SWINE"}

\* Option<usize>
None == {}

Some(x) == {x}

(***************************************************************************)
(* Witness assignment (src/z3rro/src/model.rs): declarations, terms and    *)
(* the values a z3::Model gives them. Numbers are decimal texts, so that   *)
(* values beyond 64 bits are held exactly.                                 *)
(***************************************************************************)
\* z3::FuncDecl: a declaration is its name together with its sorts.
FuncDecl(name, domain, range) ==
    [name |-> name, domain |-> domain, range |-> range]

\* A term of z3::ast: the application of a declaration to argument terms.
App(decl, args) == [kind |-> "app", decl |-> decl, args |-> args]

\* Ast::is_app
is_app(ast) == ast.kind = "app"

\* Ast::is_const: an application without arguments
is_const(ast) == is_app(ast) /\ Len(ast.args) = 0

\* A constant of the given name and sort: the application of its
\* declaration to no arguments.
Constant(name, sort) == App(FuncDecl(name, <<>>, sort), <<>>)

\* The declarations of two functions over the integers.
D_f == FuncDecl("f", <<"Int">>, "Int")

D_g == FuncDecl("g", <<"Int", "Int">>, "Int")

T_x == Constant("x", "Int")

T_fx == App(D_f, <<T_x>>)

\* g(f(x), f(x)): three distinct nodes behind five references
T_gff == App(D_g, <<T_fx, T_fx>>)

\* g(g(f(x), f(x)), g(f(x), f(x))): four distinct nodes behind eleven
T_ggg == App(D_g, <<T_gff, T_gff>>)

\* A quantifier over the constant bound: a term that is neither a constant
\* nor an application, whatever its body holds.
Quantifier(bound, body) == [kind |-> "quantifier", decl |-> bound, args |-> <<body>>]

\* if (forall y. b) then f(x) else n: an application with a child that
\* mark_expr records and does not walk into.
T_ite ==
    App(FuncDecl("if", <<"Bool", "Int", "Int">>, "Int"),
        <<Quantifier(FuncDecl("y", <<>>, "Int"), Constant("b", "Bool")),
          T_fx, Constant("n", "Int")>>)

\* The terms callers evaluate, by the sort of their SmtEval implementation.
\* Two constants share the name x and differ in their sort.
BoolTerms == {Constant("b", "Bool"), Constant("x", "Bool")}

IntTerms == {T_x, Constant("n", "Int"), T_fx, T_gff, T_ggg}

RealTerms == {Constant("r", "Real"), Constant("u", "Real")}

\* The asts Model::eval returns: a boolean literal, an integer numeral, a
\* rational numeral, or a term left without a value.
BoolValue(b) ==
    [kind |-> "bool", b |-> b, num |-> <<>>, den |-> <<>>, name |-> ""]

IntValue(num) ==
    [kind |-> "int", b |-> FALSE, num |-> num, den |-> <<"1">>, name |-> ""]

RealValue(num, den) ==
    [kind |-> "real", b |-> FALSE, num |-> num, den |-> den, name |-> ""]

Unevaluated(ast) ==
    [kind |-> "term", b |-> FALSE, num |-> <<>>, den |-> <<>>,
     name |-> ast.decl.name]

\* i64::MAX, in decimal
S_i64_max ==
    <<"9", "2", "2", "3", "3", "7", "2", "0", "3", "6",
      "8", "5", "4", "7", "7", "5", "8", "0", "7">>

DigitValue ==
    [c \in {"0", "1", "2", "3", "4", "5", "6", "7", "8", "9"} |->
        CASE c = "0" -> 0 [] c = "1" -> 1 [] c = "2" -> 2 [] c = "3" -> 3
          [] c = "4" -> 4 [] c = "5" -> 5 [] c = "6" -> 6 [] c = "7" -> 7
          [] c = "8" -> 8 [] c = "9" -> 9]

\* Whether the natural number with decimal text num (no leading zeros) is
\* at most i64::MAX: the test behind as_i64 and as_real.
fits_i64(num) ==
    \/ Len(num) < Len(S_i64_max)
    \/ /\ Len(num) = Len(S_i64_max)
       /\ \/ num = S_i64_max
          \/ \E i \in 1..Len(num) :
                /\ \A j \in 1..(i - 1) : num[j] = S_i64_max[j]
                /\ DigitValue[num[i]] < DigitValue[S_i64_max[i]]

\* The models provers hand out: the interpretation of each declaration the
\* model holds (a function declaration is given a constant interpretation).
FullModel ==
    LET two_63 == [S_i64_max EXCEPT ![Len(S_i64_max)] = "8"]
        ten_19 == <<"1">> \o [i \in 1..Len(S_i64_max) |-> "0"]
    IN  (T_x.decl :> IntValue(<<"7">>))
        @@ (Constant("x", "Bool").decl :> BoolValue(FALSE))
        @@ (Constant("n", "Int").decl :> IntValue(two_63))
        @@ (Constant("r", "Real").decl :> RealValue(ten_19, <<"3">>))
        @@ (D_f :> IntValue(<<"2">>))
        @@ (D_g :> IntValue(<<"5">>))

SmallModel ==
    (T_x.decl :> IntValue(<<"7">>))
    @@ (Constant("x", "Bool").decl :> BoolValue(TRUE))
    @@ (Constant("r", "Real").decl :> RealValue(<<"1">>, <<"3">>))

Z3Models == {FullModel, SmallModel}

\* The value model completion gives a declaration the model leaves out.
Completion(sort) ==
    CASE sort = "Bool" -> BoolValue(FALSE)
      [] sort = "Int" -> IntValue(<<"0">>)
      [] sort = "Real" -> RealValue(<<"0">>, <<"1">>)

\* Model::eval(ast, model_completion), when Z3 produces a result
eval(model, ast, model_completion) ==
    IF ast.decl \in DOMAIN model THEN model[ast.decl]
    ELSE IF model_completion THEN Completion(ast.decl.range)
    ELSE Unevaluated(ast)

\* AccessedDecls::default. The struct carries two history fields: marked,
\* the declarations that were marked (the code keeps their names only), and
\* calls, the calls of mark_expr made by the evaluation under way.
AccessedDecls_default ==
    [accessed_decls |-> {}, accessed_exprs |-> {}, marked |-> {}, calls |-> 0]

\* AccessedDecls::mark_func_decl
mark_func_decl(self, f) ==
    [self EXCEPT !.accessed_decls = @ \cup {f.name},
                 !.marked = @ \cup {f}]

\* AccessedDecls::is_func_decl_accessed
is_func_decl_accessed(self, f) == f.name \in self.accessed_decls

\* A traversal that records every child and walks into none.
skip_child_always(prev) == TRUE

\* A traversal that walks into every child, present or not.
skip_child_never(prev) == FALSE

\* mark_expr: `if prev.is_some() { continue; }`
skip_child(prev) == prev

RECURSIVE mark_expr(_, _)
RECURSIVE mark_children(_, _, _)
\* AccessedDecls::mark_expr
mark_expr(self, ast) ==
    LET called == [self EXCEPT !.calls = @ + 1]
    IN  IF is_const(ast) THEN mark_func_decl(called, ast.decl)
        ELSE IF is_app(ast) THEN mark_children(called, ast.args, 1)
        ELSE called

\* The loop of mark_expr over the children from the i-th on.
mark_children(self, cs, i) ==
    IF i > Len(cs) THEN self
    ELSE
        LET child == cs[i]
            prev == child \in self.accessed_exprs
            inserted == [self EXCEPT !.accessed_exprs = @ \cup {child}]
        IN  mark_children(IF skip_child(prev) THEN inserted
                          ELSE mark_expr(inserted, child),
                          cs, i + 1)

(***************************************************************************)
(* Numeric extraction: what the SmtEval implementations make of the ast    *)
(* that Model::eval returned.                                              *)
(***************************************************************************)
\* The value an evaluation returns: a bool, a BigInt (numer) or a
\* BigRational (numer and denom, standing for the exact quotient).
NoValue == [b |-> FALSE, numer |-> <<>>, denom |-> <<>>]

Ok(value) == [res |-> "Ok", value |-> value]

Err(error) == [res |-> error, value |-> NoValue]

\* Bool::as_bool
as_bool(ast) == IF ast.kind = "bool" THEN Some(ast.b) ELSE None

\* Option::unwrap_or
unwrap_or(option, default) ==
    IF option = None THEN default ELSE CHOOSE x \in option : TRUE

\* Int::as_i64
as_i64(ast) ==
    IF ast.kind = "int" /\ fits_i64(ast.num) THEN Some(ast.num) ELSE None

\* Real::as_real
as_real(ast) ==
    IF ast.kind = "real" /\ fits_i64(ast.num) /\ fits_i64(ast.den)
    THEN Some(<<ast.num, ast.den>>) ELSE None

S_division == <<"(", "/">>

S_dot_zero == <<".", "0">>

\* format!("{:?}", res) of the ast of a Real: Z3 writes a fraction as
\* (/ num.0 den.0), a whole number as num.0 and a constant as its name.
format_debug(ast) ==
    IF ast.kind = "real"
    THEN IF ast.den = <<"1">> THEN ast.num \o S_dot_zero
         ELSE S_division \o <<" ">> \o ast.num \o S_dot_zero \o <<" ">>
              \o ast.den \o S_dot_zero \o <<")">>
    ELSE <<ast.name>>

\* str::starts_with
starts_with(text, pat) ==
    Len(text) >= Len(pat) /\ SubSeq(text, 1, Len(pat)) = pat

\* str::ends_with
ends_with(text, pat) ==
    /\ Len(text) >= Len(pat)
    /\ SubSeq(text, Len(text) - Len(pat) + 1, Len(text)) = pat

RECURSIVE replace(_, _)
\* str::replace(pat, ""): every occurrence of pat, from the left, removed
replace(text, pat) ==
    IF text = <<>> THEN <<>>
    ELSE IF starts_with(text, pat)
    THEN replace(SubSeq(text, Len(pat) + 1, Len(text)), pat)
    ELSE <<Head(text)>> \o replace(Tail(text), pat)

RECURSIVE split_scan(_, _, _)
\* The iterator of split_ascii_whitespace, run to its end.
split_scan(rest, word, parts) ==
    LET closed == IF word = <<>> THEN parts ELSE Append(parts, word)
    IN  IF rest = <<>> THEN closed
        ELSE IF Head(rest) \in {" ", "\n", "\t"}
        THEN split_scan(Tail(rest), <<>>, closed)
        ELSE split_scan(Tail(rest), Append(word, Head(rest)), parts)

\* str::split_ascii_whitespace
split_ascii_whitespace(text) == split_scan(text, <<>>, <<>>)

\* BigInt::from_str: an optional sign and one or more decimal digits. The
\* BigInt is held as its decimal text without sign "+" or leading zeros.
from_str(s) ==
    LET minus == s # <<>> /\ Head(s) = "-" /\ ~(Len(s) > 1 /\ s[2] = "+")
        body == IF minus \/ (s # <<>> /\ Head(s) = "+") THEN Tail(s) ELSE s
        nonzero == {i \in 1..Len(body) : body[i] # "0"}
        first == CHOOSE i \in nonzero : \A j \in nonzero : i <= j
    IN  IF body = <<>> \/ \E i \in 1..Len(body) : body[i] \notin DOMAIN DigitValue
        THEN None
        ELSE IF nonzero = {} THEN Some(<<"0">>)
        ELSE Some((IF minus THEN <<"-">> ELSE <<>>)
                  \o SubSeq(body, first, Len(body)))

\* A rational built with its two parts in each other's place.
BigRational_inverted(numer, denom) ==
    IF numer = <<"0">> THEN Err("panic")
    ELSE Ok([b |-> FALSE, numer |-> denom, denom |-> numer])

\* BigRational::new, which panics when the denominator is zero
BigRational_new(numer, denom) ==
    IF denom = <<"0">> THEN Err("panic")
    ELSE Ok([b |-> FALSE, numer |-> numer, denom |-> denom])

\* SmtEval for Real, the else branch: the text "(/ num.0 denom.0)" parsed
parse_division(division_expr) ==
    IF \/ ~starts_with(division_expr, S_division \o <<" ">>)
       \/ ~ends_with(division_expr, S_dot_zero \o <<")">>)
    THEN Err("ParseError")
    ELSE
        LET parts == split_ascii_whitespace(division_expr)
            numerator == from_str(replace(parts[2], S_dot_zero))
            denominator == from_str(replace(parts[3], S_dot_zero \o <<")">>))
        IN  IF Len(parts) < 1 \/ parts[1] # S_division THEN Err("ParseError")
            ELSE IF Len(parts) < 2 \/ numerator = None THEN Err("ParseError")
            ELSE IF Len(parts) < 3 \/ denominator = None THEN Err("ParseError")
            ELSE BigRational_new(unwrap_or(numerator, <<>>),
                                 unwrap_or(denominator, <<>>))

\* SmtEval for Bool, on what eval_ast returned
decode_Bool(res) ==
    IF res = None THEN Err("EvalError")
    ELSE Ok([NoValue EXCEPT !.b =
                unwrap_or(as_bool(unwrap_or(res, NoValue)), TRUE)])

\* SmtEval for Int, on what eval_ast returned
decode_Int(res) ==
    LET value == as_i64(unwrap_or(res, NoValue))
    IN  IF res = None THEN Err("EvalError")
        ELSE IF value = None THEN Err("ParseError")
        ELSE Ok([b |-> FALSE, numer |-> unwrap_or(value, <<>>),
                 denom |-> <<"1">>])

\* SmtEval for Real, on what eval_ast returned
decode_Real(res) ==
    LET ast == unwrap_or(res, NoValue)
        pair == unwrap_or(as_real(ast), <<>>)
    IN  IF res = None THEN Err("EvalError")
        ELSE IF as_real(ast) # None THEN BigRational_new(pair[1], pair[2])
        ELSE parse_division(format_debug(ast))

\* Solver::new: the frames of a z3::Solver. Frame 1 holds the assertions
\* made at level 0, frame k + 1 those made after the k-th open push. Each
\* assertion carries the formula asserted and, as history, the kind of call
\* that asserted it.
SolverNew == << <<>> >>

\* Solver::assert
SolverAssert(solver, entry) ==
    [solver EXCEPT ![Len(solver)] = Append(@, entry)]

\* Solver::push
SolverPush(solver) == Append(solver, <<>>)

\* A solver whose pop discards nothing.
SolverPop_keeping(solver) == solver

\* Solver::pop(1): without an open scope Z3 reports an error that the
\* binding ignores, and the solver is left as it is.
SolverPop(solver) ==
    IF Len(solver) > 1 THEN SubSeq(solver, 1, Len(solver) - 1) ELSE solver

\* Solver::get_assertions
get_assertions(solver) ==
    LET es == Flatten(solver) IN [i \in 1..Len(es) |-> es[i].f]

\* Prover::new, over the solver it creates
new(handle, solver_type) ==
    [exists |-> TRUE,
     solver |-> handle,
     level |-> 0,
     min_level_with_provables |-> None,
     smt_solver |-> solver_type]

\* The derived prover before to_exists_forall has built it.
Absent ==
    [exists |-> FALSE,
     solver |-> 0,
     level |-> 0,
     min_level_with_provables |-> None,
     smt_solver |-> "Z3"]

NoCall ==
    [op |-> "none", id |-> "none", verdict |-> "none", res |-> "none",
     consulted |-> FALSE, model |-> {}, reason |-> "none", assumptions |-> <<>>,
     universal |-> {}]

\* InstrumentedModel::new
InstrumentedModel_new(consistency, model) ==
    [consistency |-> consistency,
     model |-> model,
     accessed_decls |-> AccessedDecls_default]

\* The visits a model holds: the names of its visited declarations and its
\* visited subexpressions.
Visits(self) ==
    [decls |-> self.accessed_decls.accessed_decls,
     exprs |-> self.accessed_decls.accessed_exprs]

\* The visits of `before` that `after` no longer holds.
Undone(before, after) ==
    [decls |-> before.decls \ after.decls, exprs |-> before.exprs \ after.exprs]

NoEval ==
    [op |-> "none", ast |-> None, model_completion |-> FALSE, raw |-> None,
     res |-> "none", value |-> NoValue, calls |-> 0, undone |-> [decls |-> {}, exprs |-> {}],
     inner |-> [decls |-> {}, exprs |-> {}]]

NoText ==
    [op |-> "none", input |-> <<>>, output |-> <<>>, res |-> "none",
     value |-> NoValue,
     made |-> [shape |-> "none", num |-> 0, den |-> 0, terms |-> <<>>]]

\* A prover of one of the given solver types, just constructed.
ProverInit(solver_types) ==
    /\ \E t \in solver_types :
          provers = [id \in ProverIds |-> IF id = "main" THEN new(1, t) ELSE Absent]
    /\ solvers = <<SolverNew>>
    /\ status = "running"
    /\ last = NoCall
    /\ net = [id \in ProverIds |-> 0]
    /\ saved = [id \in ProverIds |-> <<>>]
    /\ asked = [id \in ProverIds |-> FALSE]
    /\ steps = 0

\* A model of one of the given z3::Models, just wrapped.
WitnessInit(models) ==
    /\ \E model \in models :
          instrumented = InstrumentedModel_new("Consistent", model)
    /\ open = <<>>
    /\ ev = NoEval
    /\ io = NoText

Init == ProverInit(SolverType) /\ WitnessInit({SmallModel})

Usable(id) == status = "running" /\ provers[id].exists

\* The solver of prover id.
SolverOf(id) == solvers[provers[id].solver]

\* What a caller can observe of prover id: its fields and its solver.
View(id) ==
    [level |-> provers[id].level,
     min_level_with_provables |-> provers[id].min_level_with_provables,
     smt_solver |-> provers[id].smt_solver,
     solver |-> IF provers[id].exists THEN SolverOf(id) ELSE SolverNew]

(***************************************************************************)
(* Scope operations.                                                       *)
(***************************************************************************)
\* Prover::add_assumption
add_assumption(id, value) ==
    /\ Usable(id)
    /\ Len(Flatten(SolverOf(id))) < MaxAssertions
    /\ solvers' = [solvers EXCEPT ![provers[id].solver] =
                      SolverAssert(@, [f |-> value, kind |-> "assumption"])]
    /\ last' = NoCall
    /\ UNCHANGED <<provers, status, net, saved, asked>>

\* An add_provable that always stores the current level in the marker.
get_or_insert_overwriting(marker, lvl) == Some(lvl)

\* Option::get_or_insert(self.level) on the marker in add_provable
get_or_insert(marker, lvl) == IF marker = None THEN Some(lvl) ELSE marker

\* Prover::add_provable
add_provable(id, value) ==
    /\ Usable(id)
    /\ Len(Flatten(SolverOf(id))) < MaxAssertions
    /\ solvers' = [solvers EXCEPT ![provers[id].solver] =
                      SolverAssert(@, [f |-> Not(value), kind |-> "provable"])]
    /\ provers' = [provers EXCEPT ![id].min_level_with_provables =
                      get_or_insert(@, provers[id].level)]
    /\ asked' = [asked EXCEPT ![id] = TRUE]
    /\ last' = NoCall
    /\ UNCHANGED <<status, net, saved>>

\* Prover::push
push(id) ==
    /\ Usable(id)
    /\ provers[id].level < MaxLevel
    /\ solvers' = [solvers EXCEPT ![provers[id].solver] = SolverPush(@)]
    /\ provers' = [provers EXCEPT ![id].level = @ + 1]
    /\ net' = [net EXCEPT ![id] = @ + 1]
    /\ saved' = [saved EXCEPT ![id] = Append(@, View(id))]
    /\ last' = NoCall
    /\ UNCHANGED <<status, asked>>

\* A pop that compares the marker with >= instead of >.
pop_marker_ge(marker, lvl) ==
    IF \E prev_min_level \in marker : prev_min_level >= lvl THEN None ELSE marker

\* A pop that never clears the marker.
pop_marker_kept(marker, lvl) == marker

\* The marker that Prover::pop leaves, the level being lvl after the pop
pop_marker(marker, lvl) ==
    IF \E prev_min_level \in marker : prev_min_level > lvl THEN None ELSE marker

\* A pop that saturates at level 0 and returns.
pop_saturating(id) ==
    /\ Usable(id)
    /\ solvers' = [solvers EXCEPT ![provers[id].solver] = SolverPop(@)]
    /\ net' = [net EXCEPT ![id] = @ - 1]
    /\ provers' = [provers EXCEPT
          ![id].level = IF @ > 0 THEN @ - 1 ELSE 0,
          ![id].min_level_with_provables = pop_marker(@, provers[id].level - 1)]
    /\ saved' = [saved EXCEPT ![id] = SubSeq(@, 1, Len(@) - 1)]
    /\ last' = NoCall
    /\ UNCHANGED <<status, asked>>

\* Prover::pop: the solver pops first; at level 0 that changes nothing and
\* checked_sub(1).expect("cannot pop level 0") panics.
pop(id) ==
    /\ Usable(id)
    /\ solvers' = [solvers EXCEPT ![provers[id].solver] = SolverPop(@)]
    /\ net' = [net EXCEPT ![id] = @ - 1]
    /\ UNCHANGED asked
    /\ \/ /\ provers[id].level > 0
          /\ provers' = [provers EXCEPT
                ![id].level = @ - 1,
                ![id].min_level_with_provables =
                    pop_marker(@, provers[id].level - 1)]
          /\ saved' = [saved EXCEPT ![id] = SubSeq(@, 1, Len(@) - 1)]
          /\ last' = NoCall
          /\ UNCHANGED status
       \/ /\ provers[id].level = 0
          /\ status' = "panicked"
          /\ last' = [NoCall EXCEPT !.op = "pop", !.id = id,
                                    !.reason = "cannot pop level 0"]
          /\ UNCHANGED <<provers, saved>>

(***************************************************************************)
(* The validity check.                                                     *)
(***************************************************************************)
\* Solver::check and Solver::check_assumptions with Solver::get_model and
\* Solver::get_reason_unknown: Z3 answers Unsat only for an unsatisfiable
\* conjunction, Sat only with an assignment that satisfies it, and may give
\* up (a timeout) with a reason.
Z3Answers(assertions, assumptions) ==
    LET ms == Models(assertions \o assumptions) IN
    (IF ms = {}
     THEN {[err |-> FALSE, res |-> "Unsat", model |-> {}, reason |-> "none"]}
     ELSE {[err |-> FALSE, res |-> "Sat", model |-> {a}, reason |-> "none"] : a \in ms})
    \cup {[err |-> FALSE, res |-> "Unknown", model |-> {}, reason |-> "timeout"]}

\* The stretch of the text that ends with a command: the command, after the
\* line break that ends the command before it.
Stretch(command, first) == IF first THEN command ELSE <<"\n">> \o command

\* The text written to the temporary file: the solver state with the
\* check-sat command, one command per line, filtered by
\* remove_lines_for_swine. Every command ends with the parenthesis that
\* balances it, where the loop has emptied its buffer and its count is 0, so
\* the loop is run on one stretch at a time; the line break after the last
\* command stays in the buffer and is not written.
smt_file(assertions) ==
    LET commands == get_smtlib(assertions) IN
    Concat([i \in 1..Len(commands) |->
               remove_lines_for_swine(Stretch(commands[i], i = 1))])

\* The formulas a prover over SWINE can hold: those given to add_assumption
\* and the negations of those given to add_provable.
Assertable == Formulas \cup {Not(f) : f \in Formulas}

\* What remove_lines_for_swine leaves of the assert command of each formula.
written ==
    [f \in Assertable |-> remove_lines_for_swine(Stretch(RenderAssertion(f), FALSE))]

\* The formulas whose assert commands the file holds.
SwineInput(assertions) ==
    LET Kept(f) == written[f] # <<>>
    IN  SelectSeq(assertions, Kept)

\* What the swine process prints for the file it is given: the answer for
\* the commands in the file, or that it does not know.
SwineStdouts(assertions) ==
    {IF Models(SwineInput(assertions)) = {}
     THEN S_unsat \o <<"\n">> ELSE S_sat \o <<"\n">>,
     S_unknown \o <<"\n">>}

\* Command::new("swine").arg(file_path).output() and execute_swine: the
\* process may fail to launch, otherwise its standard output is classified.
SwineAnswers(assertions) ==
    {[err |-> FALSE, res |-> execute_swine(stdout), model |-> {}, reason |-> "none"] :
        stdout \in SwineStdouts(assertions)}
    \cup {[err |-> TRUE, res |-> "none", model |-> {}, reason |-> "none"]}

\* What the backend of prover r may answer to the check.
BackendAnswers(r, assumptions) ==
    IF r.smt_solver = "SWINE"
    THEN SwineAnswers(get_assertions(solvers[r.solver]))
    ELSE Z3Answers(get_assertions(solvers[r.solver]), assumptions)

Returned(verdict, ans, consulted, model, reason) ==
    [verdict |-> verdict, res |-> ans.res, consulted |-> consulted,
     model |-> model, reason |-> reason, exit |-> FALSE]

Exited(ans) ==
    [verdict |-> "none", res |-> ans.res, consulted |-> TRUE,
     model |-> {}, reason |-> "none", exit |-> TRUE]

NoAnswer == [err |-> FALSE, res |-> "none", model |-> {}, reason |-> "none"]

\* The verdict of the backend's answer alone, as both match blocks of
\* check_proof_assuming give it.
Consulted(r, ans) ==
    IF r.smt_solver = "SWINE"
    THEN CASE ans.err -> Exited(ans)
           [] ans.res = "Unsat" -> Returned("Proof", ans, TRUE, {}, "none")
           [] ans.res = "Unknown" -> Returned("Unknown", ans, TRUE, {}, "unknown")
           [] ans.res = "Sat" -> Exited(ans)
    ELSE CASE ans.res = "Unsat" -> Returned("Proof", ans, TRUE, {}, "none")
           [] ans.res = "Unknown" -> Returned("Unknown", ans, TRUE, {}, ans.reason)
           [] ans.res = "Sat" -> Returned("Counterexample", ans, TRUE, ans.model, "none")

\* A check without the early return for an unset marker.
check_proof_result_always_asking(r, ans) == Consulted(r, ans)

\* A check that takes an answer of Unknown for a proof.
check_proof_result_unknown_proves(r, ans) ==
    IF r.min_level_with_provables = None
    THEN Returned("Proof", NoAnswer, FALSE, {}, "none")
    ELSE IF ans.res = "Unknown" THEN Returned("Proof", ans, TRUE, {}, "none")
    ELSE Consulted(r, ans)

\* Prover::check_proof_assuming, given the answer ans of the backend when
\* it is asked.
check_proof_result(r, ans) ==
    IF r.min_level_with_provables = None
    THEN Returned("Proof", NoAnswer, FALSE, {}, "none")
    ELSE Consulted(r, ans)

RECURSIVE AssertAll(_, _)
AssertAll(solver, fs) ==
    IF fs = <<>> THEN solver
    ELSE AssertAll(SolverAssert(solver, [f |-> Head(fs), kind |-> "assumption"]),
                   Tail(fs))

\* A check that asserts its extra assumptions into the solver.
checked_retaining(solver, assumptions) == AssertAll(solver, assumptions)

\* The solver after Solver::check (no assumptions) or
\* Solver::check_assumptions: the assumptions hold for that check only and
\* are not asserted.
checked(solver, assumptions) == solver

\* Prover::check_proof_assuming
check_proof_assuming(id, assumptions) ==
    /\ Usable(id)
    /\ \E ans \in BackendAnswers(provers[id], assumptions) :
          LET out == check_proof_result(provers[id], ans) IN
          /\ last' = [op |-> "check_proof_assuming", id |-> id,
                      verdict |-> out.verdict, res |-> out.res,
                      consulted |-> out.consulted, model |-> out.model,
                      reason |-> out.reason, assumptions |-> assumptions,
                      universal |-> {}]
          /\ status' = IF out.exit THEN "exited" ELSE status
          /\ solvers' = IF out.consulted /\ provers[id].smt_solver = "Z3"
                         THEN [solvers EXCEPT ![provers[id].solver] =
                                  checked(@, assumptions)]
                         ELSE solvers
    /\ UNCHANGED <<provers, net, saved, asked>>

\* Prover::check_proof
check_proof(id) == check_proof_assuming(id, <<>>)

\* The slices of extra assumptions callers pass.
AssumptionSlices == {<<>>, <<False>>, <<Const("p")>>}

(***************************************************************************)
(* The exists-forall transform.                                            *)
(***************************************************************************)
\* The theorem that to_exists_forall asserts
theorem(assertions, universal) == forall_const(universal, Not(And(assertions)))

\* A derived prover that works on its parent's solver.
derived_solver_shared(id) == provers[id].solver

\* The solver that the prover returned by to_exists_forall uses: the one
\* its Prover::new creates
derived_solver(id) == Len(solvers) + 1

\* Prover::to_exists_forall: the caller keeps the result as the derived
\* prover. Z3 rejects a quantifier without bound constants, so callers pass
\* at least one.
to_exists_forall(id, universal) ==
    /\ Usable(id)
    /\ id = "main"
    /\ ~provers["derived"].exists
    /\ LET handle == derived_solver(id)
           created == IF handle > Len(solvers) THEN Append(solvers, SolverNew)
                      ELSE solvers
       IN  /\ provers' = [provers EXCEPT !["derived"] = new(handle, "Z3")]
           /\ solvers' = [created EXCEPT ![handle] =
                 SolverAssert(@, [f |-> theorem(get_assertions(SolverOf(id)), universal),
                                  kind |-> "assumption"])]
    /\ last' = [NoCall EXCEPT !.op = "to_exists_forall", !.id = id,
                              !.universal = universal]
    /\ UNCHANGED <<status, net, saved, asked>>

(***************************************************************************)
(* Properties.                                                             *)
(***************************************************************************)
\* The assertions of prover id, of every open scope, oldest first.
Entries(id) == Flatten(SolverOf(id))

\* The obligations of prover id that are still present: the formulas given
\* to add_provable in scopes that are still open.
Obligations(id) ==
    {Entries(id)[i].f.args[1] :
        i \in {j \in 1..Len(Entries(id)) : Entries(id)[j].kind = "provable"}}

\* The assumptions of prover id that are still present.
IsAssumption(e) == e.kind = "assumption"

Assumptions(id) ==
    LET es == SelectSeq(Entries(id), IsAssumption) IN [i \in 1..Len(es) |-> es[i].f]

Marker(id) == provers[id].min_level_with_provables

\* A check was the most recent call, made on prover id.
Checked(id) == last.op = "check_proof_assuming" /\ last.id = id

\* C1: on a prover on which add_provable was never called, every check
\* returns Proof without asking the backend, whatever was assumed and
\* whichever backend the prover has.
C1_VacuousProof ==
    \A id \in ProverIds :
        Checked(id) /\ ~asked[id] =>
            last.verdict = "Proof" /\ ~last.consulted /\ status = "running"

\* C1 witness: a SWINE prover in an open scope, holding an unsatisfiable
\* assumption and no obligation, was checked.
C1_Witness ==
    /\ Checked("main")
    /\ ~asked["main"]
    /\ provers["main"].smt_solver = "SWINE"
    /\ provers["main"].level > 0
    /\ Entries("main") # <<>>
    /\ Models(get_assertions(SolverOf("main"))) = {}
    /\ last.verdict = "Proof"

\* check_proof on a Z3 prover returned Proof.
Z3Proof(id) ==
    /\ Checked(id)
    /\ last.assumptions = <<>>
    /\ provers[id].smt_solver = "Z3"
    /\ last.verdict = "Proof"

\* C2 as stated: when check_proof on a Z3 prover returns Proof, each
\* obligation still present holds in every assignment that satisfies the
\* assumptions still present.
C2_EachObligationHolds ==
    \A id \in ProverIds :
        Z3Proof(id) =>
            \A f \in Obligations(id) :
                \A a \in Models(Assumptions(id)) : Holds(f, a)

\* C2 amended: when check_proof on a Z3 prover returns Proof and obligations
\* are present, every assignment that satisfies the assumptions still
\* present satisfies at least one of the obligations; a single obligation
\* therefore holds in every such assignment.
C2_SomeObligationHolds ==
    \A id \in ProverIds :
        Z3Proof(id) /\ Obligations(id) # {} =>
            \A a \in Models(Assumptions(id)) :
                \E f \in Obligations(id) : Holds(f, a)

\* C2 witness: Z3 answered Unsat for two different obligations under
\* satisfiable assumptions.
C2_Witness ==
    /\ Z3Proof("main")
    /\ last.consulted
    /\ Cardinality(Obligations("main")) = 2
    /\ Models(Assumptions("main")) # {}

\* C3: the marker is None exactly when no obligation is present in the
\* current scope or an ancestor scope.
C3_MarkerInvariant ==
    \A id \in ProverIds :
        provers[id].exists => (Marker(id) = None <=> Obligations(id) = {})

\* C3 witness: add_provable was called, the scope it was called in is
\* closed, and assumptions remain.
C3_Witness ==
    /\ asked["main"]
    /\ Marker("main") = None
    /\ Entries("main") # <<>>
    /\ status = "running"

\* C4: a pop that closes the scopes of all obligations clears the marker, a
\* pop that leaves an obligation in an open scope (level 0 included) leaves
\* the marker as it was, and a check made with every obligation discarded
\* returns Proof without asking the backend.
C4_DiscardedWithScope ==
    [][\A id \in ProverIds :
          /\ (provers[id].exists /\ provers'[id].level < provers[id].level) =>
                /\ Obligations(id)' = {} => Marker(id)' = None
                /\ Obligations(id)' # {} =>
                      Marker(id)' = Marker(id) /\ Marker(id) # None
          /\ (Checked(id)' /\ asked[id] /\ Obligations(id) = {}) =>
                last'.verdict = "Proof" /\ ~last'.consulted]_vars

\* C4 witness: after an obligation was discarded with its scope, a check on
\* a prover that still holds a satisfiable assumption returned Proof.
C4_Witness ==
    /\ Checked("main")
    /\ asked["main"]
    /\ Obligations("main") = {}
    /\ Models(get_assertions(SolverOf("main"))) # {}
    /\ Entries("main") # <<>>
    /\ last.verdict = "Proof"

\* C5: the level is the number of push calls minus the number of pop calls,
\* and the pop that matches a push leaves the level, the marker and the
\* assertions as they were before that push.
C5_PushPopSymmetry ==
    /\ \A id \in ProverIds : provers[id].level = net[id]
    /\ [][\A id \in ProverIds :
             /\ status' = "running" => provers'[id].level = net'[id]
             /\ (provers[id].exists /\ provers'[id].level < provers[id].level) =>
                   /\ saved[id] # <<>>
                   /\ View(id)' = saved[id][Len(saved[id])]]_vars

\* C5 witness: back at level 0 with the assumption made there, after a
\* scope in which an obligation was added has been pushed and popped.
C5_Witness ==
    /\ status = "running"
    /\ provers["main"].level = 0
    /\ net["main"] = 0
    /\ asked["main"]
    /\ Obligations("main") = {}
    /\ Len(Entries("main")) = 1

\* C6: a pop call at level 0 panics with "cannot pop level 0" and leaves
\* the prover as it is, and no level is ever below 0.
C6_PopAtLevelZero ==
    [][\A id \in ProverIds :
          /\ provers'[id].level >= 0
          /\ (net'[id] = net[id] - 1 /\ provers[id].level = 0) =>
                /\ status' = "panicked"
                /\ last'.reason = "cannot pop level 0"
                /\ provers'[id] = provers[id]]_vars

\* C6 witness: pop panicked on a SWINE prover whose marker is set.
C6_Witness ==
    /\ status = "panicked"
    /\ last.op = "pop"
    /\ provers["main"].smt_solver = "SWINE"
    /\ Marker("main") # None
    /\ provers["main"].level = 0

\* C7 as stated: every check made with the marker set returns one verdict,
\* given by the backend's outcome: Unsat gives Proof, Sat gives a
\* Counterexample with an assignment, Unknown gives Unknown with a reason.
C7_UniformVerdict ==
    \A id \in ProverIds :
        Checked(id) /\ Marker(id) # None =>
            /\ status = "running"
            /\ last.verdict \in {"Proof", "Counterexample", "Unknown"}
            /\ last.res = "Unsat" <=> last.verdict = "Proof"
            /\ last.res = "Sat" <=> last.verdict = "Counterexample"
            /\ last.res = "Unknown" <=> last.verdict = "Unknown"
            /\ last.verdict = "Counterexample" => last.model # {}
            /\ last.verdict = "Unknown" => last.reason # "none"

C9_DecidesWithAssumptions ==
    \A id \in ProverIds :
        (Checked(id) /\ Marker(id) # None /\ last.res # "Unknown"
         /\ Models(get_assertions(SolverOf(id)) \o last.assumptions) = {}) =>
            last.verdict = "Proof"

\* C10: to_exists_forall gives a prover at level 0 with no marker, whose
\* only assertion quantifies the given constants over the negated
\* conjunction of the assertions its parent holds in all open scopes; the
\* call leaves the parent as it is, and no later call on one of the two
\* provers changes the other.
C10_ExistsForallIndependent ==
    [][/\ (~provers["derived"].exists /\ provers'["derived"].exists) =>
             /\ provers'["derived"].level = 0
             /\ Marker("derived")' = None
             /\ last'.op = "to_exists_forall"
             /\ get_assertions(SolverOf("derived"))' =
                   <<forall_const(last'.universal,
                                  Not(And(get_assertions(SolverOf("main")))))>>
             /\ View("main")' = View("main")
       /\ provers["derived"].exists =>
             /\ provers'["derived"].exists
             /\ provers'["derived"].solver # provers'["main"].solver
             /\ View("main")' = View("main") \/ View("derived")' = View("derived")]_vars

\* C10 witness: a prover derived from a parent that held an assumption at
\* level 0 and an obligation in an open scope, and that has since been given
\* an obligation of its own.
C10_Witness ==
    /\ provers["derived"].exists
    /\ Len(Entries("derived")) = 2
    /\ Len(Entries("derived")[1].f.args[1].args[1].args) = 2
    /\ Marker("derived") # None
    /\ Marker("main") = Some(1)
    /\ Len(Entries("main")) = 2


\* The levels at which the obligations of prover id that are still present
\* were added: an assertion made at level k is in scope k of the solver.
ObligationLevels(id) ==
    {j - 1 : j \in {k \in 1..Len(SolverOf(id)) :
                       \E i \in 1..Len(SolverOf(id)[k]) :
                           SolverOf(id)[k][i].kind = "provable"}}

\* C21: a marker Some(m) holds the lowest level at which an obligation that
\* is still present was added, and m is at most the level of the prover;
\* add_provable stores the current level in the marker when it is None and
\* leaves it otherwise, and add_assumption and push leave the marker as it
\* was.
C21_MarkerMinimum ==
    /\ [](\A id \in ProverIds :
            provers[id].exists =>
                \A m \in Marker(id) :
                    /\ m <= provers[id].level
                    /\ m \in ObligationLevels(id)
                    /\ \A k \in ObligationLevels(id) : m <= k)
    /\ [][\A id \in ProverIds :
            provers[id].exists /\ provers[id].exists' =>
                LET added == Len(Entries(id)') = Len(Entries(id)) + 1
                    entry == Entries(id)'[Len(Entries(id)')]
                    pushed == provers[id].level' = provers[id].level + 1
                IN  /\ added /\ entry.kind = "provable" =>
                        Marker(id)' = IF Marker(id) = None
                                      THEN Some(provers[id].level)
                                      ELSE Marker(id)
                    /\ added /\ entry.kind = "assumption" =>
                        Marker(id)' = Marker(id)
                    /\ pushed => Marker(id)' = Marker(id)]_vars

\* C21 witness: the marker is Some(1) on a prover at level 2 that holds an
\* obligation added at level 1 and one added at level 2.
C21_Witness ==
    /\ status = "running"
    /\ Marker("main") = Some(1)
    /\ provers["main"].level = 2
    /\ ObligationLevels("main") = {1, 2}

(***************************************************************************)
(* Witness assignment: the calls made on an InstrumentedModel.             *)
(***************************************************************************)
\* atomically calls nested in one another at a time
MaxNesting == 2
\* calls made on one model in a run of evaluations
MaxEvals == 3
\* calls made on one model in a run with atomically calls
MaxCalls == 6

\* The terms evaluated inside atomically calls.
AtomicTerms == {T_x, Constant("n", "Int"), T_gff, T_ite}

\* The caller is running code: the process is alive and the closure of the
\* innermost atomically call, if there is one, has not returned yet.
Evaluating ==
    /\ status = "running"
    /\ IF open = <<>> THEN TRUE ELSE open[Len(open)].res = "Ok"

\* InstrumentedModel::eval_ast: the accessed declarations after the call and
\* the Option returned. `produced` tells whether Model::eval gave a result.
eval_ast(self, ast, model_completion, produced) ==
    [accessed_decls |-> mark_expr(self.accessed_decls, ast),
     res |-> IF produced THEN Some(eval(self.model, ast, model_completion))
             ELSE None]

\* The closures under way after a call inside them returned res: an error
\* ends the innermost closure with that error unless the closure handles it.
Propagated(calls_open, res, handled) ==
    IF calls_open = <<>> \/ res = "Ok" \/ handled THEN calls_open
    ELSE [calls_open EXCEPT ![Len(calls_open)].res = res]

\* A call of SmtEval::eval: `call` is what eval_ast did, with the
\* implementation's choice of model completion, and `out` what the
\* implementation decoded from its result.
SmtEval(op, ast, model_completion, call, out, handled) ==
    /\ Evaluating
    /\ instrumented' = [instrumented EXCEPT !.accessed_decls =
                           [call.accessed_decls EXCEPT !.calls = 0]]
    /\ ev' = [NoEval EXCEPT
                 !.op = op, !.ast = Some(ast),
                 !.model_completion = model_completion, !.raw = call.res,
                 !.res = out.res, !.value = out.value,
                 !.calls = call.accessed_decls.calls]
    /\ status' = IF out.res = "panic" THEN "panicked" ELSE status
    /\ open' = IF out.res = "panic" THEN open
               ELSE Propagated(open, out.res, handled)
    /\ UNCHANGED <<provers, solvers, last, net, saved, asked, io>>

\* SmtEval for Bool: eval
Bool_eval(ast, produced, handled) ==
    LET call == eval_ast(instrumented, ast, FALSE, produced)
    IN  SmtEval("Bool", ast, FALSE, call, decode_Bool(call.res), handled)

\* SmtEval for Int: eval
Int_eval(ast, produced, handled) ==
    LET call == eval_ast(instrumented, ast, TRUE, produced)
    IN  SmtEval("Int", ast, TRUE, call, decode_Int(call.res), handled)

\* SmtEval for Real: eval
Real_eval(ast, produced, handled) ==
    LET call == eval_ast(instrumented, ast, FALSE, produced)
    IN  SmtEval("Real", ast, FALSE, call, decode_Real(call.res), handled)

\* InstrumentedModel::get_func_interp
get_func_interp(f) ==
    /\ Evaluating
    /\ instrumented' = [instrumented EXCEPT !.accessed_decls =
                           mark_func_decl(@, f)]
    /\ ev' = [NoEval EXCEPT !.op = "get_func_interp",
                            !.raw = IF f \in DOMAIN instrumented.model
                                    THEN Some(instrumented.model[f])
                                    ELSE None]
    /\ UNCHANGED <<provers, solvers, status, last, net, saved, asked, open, io>>

\* InstrumentedModel::iter_unaccessed
iter_unaccessed(self) ==
    {decl \in DOMAIN self.model :
        ~is_func_decl_accessed(self.accessed_decls, decl)}

\* InstrumentedModel::reset_accessed, which takes the model by unique
\* reference: no closure holding the model is under way.
reset_accessed ==
    /\ Evaluating
    /\ open = <<>>
    /\ instrumented' = [instrumented EXCEPT !.accessed_decls =
                           AccessedDecls_default]
    /\ ev' = [NoEval EXCEPT !.op = "reset_accessed"]
    /\ UNCHANGED <<provers, solvers, status, last, net, saved, asked, open, io>>

\* InstrumentedModel::atomically up to the call of f: the clone is taken.
\* The call carries a history field, inner: the visits made by the
\* atomically calls of its closure that returned Ok.
atomically_call ==
    /\ Evaluating
    /\ Len(open) < MaxNesting
    /\ open' = Append(open, [accessed_decls |-> instrumented.accessed_decls,
                             res |-> "Ok",
                             inner |-> [decls |-> {}, exprs |-> {}]])
    /\ ev' = [NoEval EXCEPT !.op = "atomically_call"]
    /\ UNCHANGED <<provers, solvers, status, last, net, saved, asked,
                   instrumented, io>>

\* An atomically that forgets every visit when f fails.
restore_cleared(current, snapshot) == AccessedDecls_default

\* An atomically that leaves the accessed declarations as f left them.
restore_nothing(current, snapshot) == current

\* atomically: `*self.accessed_decls.borrow_mut() = accessed_decls`
restore(current, snapshot) == snapshot

\* InstrumentedModel::atomically from the return of f on.
atomically_return(handled) ==
    LET call == open[Len(open)]
        rest == SubSeq(open, 1, Len(open) - 1)
        made == Undone(Visits(instrumented), Visits(call))
        noted == IF rest # <<>> /\ call.res = "Ok"
                 THEN [rest EXCEPT ![Len(rest)].inner =
                          [decls |-> @.decls \cup made.decls,
                           exprs |-> @.exprs \cup made.exprs]]
                 ELSE rest
    IN  /\ status = "running"
        /\ open # <<>>
        /\ instrumented' =
              IF call.res # "Ok"
              THEN [instrumented EXCEPT !.accessed_decls =
                       restore(@, call.accessed_decls)]
              ELSE instrumented
        /\ ev' = [NoEval EXCEPT
                     !.op = "atomically", !.res = call.res,
                     !.undone = Undone(Visits(instrumented), Visits(instrumented')),
                     !.inner = call.inner]
        /\ open' = Propagated(noted, call.res, handled)
        /\ UNCHANGED <<provers, solvers, status, last, net, saved, asked, io>>

(***************************************************************************)
(* Properties of the witness assignment.                                   *)
(***************************************************************************)
\* The two visited sets of the model.
Visited == Visits(instrumented)

\* The calls that are evaluations, and the results that are errors.
Evals == {"Bool", "Int", "Real"}

EvalErrors == {"EvalError", "ParseError"}

\* C11: when an atomically call returns an error, the visited declarations
\* and the visited subexpressions are what they were when the call began;
\* when it returns Ok its return removes nothing, and no evaluation made
\* inside a closure removes a visit.
C11_AtomicEvaluation ==
    [][/\ Len(open') < Len(open) =>
             /\ ev'.res \in EvalErrors => Visited' = Visits(open[Len(open)])
             /\ ev'.res = "Ok" => Visited' = Visited
       /\ (open # <<>> /\ ev'.op \in Evals) =>
             /\ Visited.decls \subseteq Visited'.decls
             /\ Visited.exprs \subseteq Visited'.exprs]_vars

\* C11 witness: an atomically call has returned ParseError to the top level
\* and its return took back visits of a declaration and of a subexpression
\* that an earlier evaluation of the closure had recorded.
C11_Witness ==
    /\ ev.op = "atomically"
    /\ ev.res = "ParseError"
    /\ open = <<>>
    /\ "x" \in ev.undone.decls
    /\ T_fx \in ev.undone.exprs

\* C12: as claimed, an evaluation that returns EvalError or ParseError
\* leaves the visited declarations and the visited subexpressions exactly as
\* they were before the call.
C12_ErrorLeavesVisited ==
    [][(ev'.op \in Evals /\ ev'.res \in EvalErrors) => Visited' = Visited]_vars

\* C13: as claimed, the declarations iter_unaccessed yields are exactly the
\* declarations of the model that were not themselves marked.
C13_UnaccessedExact ==
    iter_unaccessed(instrumented) =
        {decl \in DOMAIN instrumented.model :
            decl \notin instrumented.accessed_decls.marked}

RECURSIVE Nodes(_)
\* The distinct nodes of the subterm graph of a term.
Nodes(ast) ==
    {ast} \cup UNION {Nodes(ast.args[i]) : i \in 1..Len(ast.args)}

RECURSIVE Paths(_)
\* The references through which the nodes of a term are reached: one path
\* of child positions for each.
Paths(ast) ==
    {<<>>} \cup UNION {{<<i>> \o path : path \in Paths(ast.args[i])} :
                          i \in 1..Len(ast.args)}

\* C14: an evaluation of a term makes at most as many calls of mark_expr as
\* the term has distinct nodes; more exactly one for the term and at most
\* one for each of its subterms that was not a visited subexpression
\* before, so that a child already visited is not traversed again.
C14_DedupBound ==
    [][ev'.op \in Evals =>
          \A ast \in ev'.ast :
              /\ ev'.calls <= Cardinality(Nodes(ast))
              /\ ev'.calls <=
                    Cardinality((Nodes(ast) \ {ast}) \ Visited.exprs) + 1]_vars

\* C14 witness: g(g(f(x), f(x)), g(f(x), f(x))) was evaluated, a term with
\* more references than nodes, and mark_expr was called once per node.
C14_Witness ==
    /\ ev.op = "Int"
    /\ ev.ast = Some(T_ggg)
    /\ Cardinality(Paths(T_ggg)) > Cardinality(Nodes(T_ggg))
    /\ ev.calls = Cardinality(Nodes(T_ggg))

\* C15: as claimed, evaluate_boolean returns Ok(b) only when the result of
\* the backend is the boolean literal b.
C15_BooleanNeverDefaults ==
    (ev.op = "Bool" /\ ev.res = "Ok") =>
        \E ast \in ev.raw : ast.kind = "bool" /\ ast.b = ev.value.b

\* C16: as claimed, every evaluation asks the backend for model completion,
\* and what the backend returns is then a value, never a term left as it is.
C16_ModelCompletion ==
    ev.op \in Evals =>
        /\ ev.model_completion
        /\ \A ast \in ev.raw : ast.kind # "term"


RECURSIVE Constants(_)
\* The declarations of the constants that occur in a term through function
\* applications: in a quantifier-free term, all of its constants.
Constants(ast) ==
    IF is_const(ast) THEN {ast.decl}
    ELSE IF is_app(ast)
         THEN UNION {Constants(ast.args[i]) : i \in 1..Len(ast.args)}
         ELSE {}

\* C22: every visited subexpression has each constant that occurs in it
\* through function applications among the visited declarations, and after
\* an evaluation that returned Ok iter_unaccessed reports none of the
\* constants that occur in the evaluated term through function
\* applications, which in a quantifier-free term are all of its constants.
C22_DedupKeepsVisits ==
    /\ \A e \in Visited.exprs :
          \A decl \in Constants(e) : decl.name \in Visited.decls
    /\ (ev.op \in Evals /\ ev.res = "Ok") =>
          \A ast \in ev.ast :
              Constants(ast) \cap iter_unaccessed(instrumented) = {}

\* C22 witness: g(f(x), f(x)) was evaluated with success by a single call
\* of mark_expr, both children being visited subexpressions already; x is
\* in the model and is not reported, and the quantifier visited before is
\* a visited subexpression whose body holds the unvisited constant b.
C22_Witness ==
    /\ ev.op = "Int"
    /\ ev.res = "Ok"
    /\ ev.ast = Some(T_gff)
    /\ ev.calls = 1
    /\ T_x.decl \in DOMAIN instrumented.model
    /\ T_x.decl \notin iter_unaccessed(instrumented)
    /\ T_ite.args[1] \in Visited.exprs
    /\ "b" \notin Visited.decls


\* C23: an atomically call takes the visited sets as they are when it
\* begins, and no later step changes what a call under way has taken. A
\* call that fails, nested or not, leaves the visited sets as they were when
\* that very call began: the visits its enclosing closure made before it
\* are kept, and the visits made by the calls of its own closure that had
\* returned Ok are discarded.
C23_NestedAtomic ==
    [][/\ Len(open') > Len(open) =>
             /\ Visits(open'[Len(open')]) = Visited
             /\ SubSeq(open', 1, Len(open)) = open
       /\ Len(open') <= Len(open) =>
             \A i \in 1..Len(open') : Visits(open'[i]) = Visits(open[i])
       /\ (Len(open') < Len(open) /\ ev'.res \in EvalErrors) =>
             LET call == open[Len(open)]
                 before == IF Len(open) > 1
                           THEN Undone(Visits(call), Visits(open[Len(open) - 1]))
                           ELSE Visits(call)
             IN  /\ Visited' = Visits(call)
                 /\ before.decls \subseteq Visited'.decls
                 /\ before.exprs \subseteq Visited'.exprs
                 /\ call.inner.decls \cap Visited'.decls = {}
                 /\ call.inner.exprs \cap Visited'.exprs = {}]_vars

\* C23 witness: an outermost atomically call has failed after an atomically
\* call of its closure had returned Ok with new visits of a declaration and
\* of a subexpression, and its return took all of those back.
C23_Witness ==
    /\ ev.op = "atomically"
    /\ ev.res \in EvalErrors
    /\ open = <<>>
    /\ ev.inner.decls # {}
    /\ ev.inner.exprs # {}
    /\ ev.inner.decls \subseteq ev.undone.decls
    /\ ev.inner.exprs \subseteq ev.undone.exprs

(***************************************************************************)
(* The text functions on texts of their own: the rational fallback of      *)
(* SmtEval for Real, execute_swine and remove_lines_for_swine.             *)
(***************************************************************************)
\* numerators and denominators of the renderings parsed
MaxNumerator == 12
MaxDenominator == 3
\* top-level terms in a text that is filtered
MaxTerms == 2

\* A text function is given its text: each run makes one call.
TextGiven == status = "running" /\ io = NoText

RECURSIVE decimal(_)
\* The decimal text of a natural number, as the backend writes a numeral.
decimal(n) ==
    LET last_digit == CHOOSE c \in DOMAIN DigitValue : DigitValue[c] = n % 10
    IN  IF n < 10 THEN <<last_digit>>
        ELSE decimal(n \div 10) \o <<last_digit>>

RECURSIVE Number(_)
\* The integer a BigInt stands for.
Number(text) ==
    IF text = <<>> THEN 0
    ELSE IF Head(text) = "-" THEN 0 - Number(Tail(text))
    ELSE Number(SubSeq(text, 1, Len(text) - 1)) * 10
         + DigitValue[text[Len(text)]]

\* What format!("{:?}", res) may hold for the parser: the fraction of num
\* and den in the shape (/ num.0 den.0), or a text that leaves that shape.
Rendering(shape, num, den) ==
    LET decorated(part) == part \o S_dot_zero
        term(operator, parts) ==
            <<"(", operator>>
            \o Concat([i \in 1..Len(parts) |-> <<" ">> \o parts[i]]) \o <<")">>
    IN  CASE shape = "exact" -> term("/", <<decorated(num), decorated(den)>>)
          [] shape = "bare numerator" -> term("/", <<num, decorated(den)>>)
          [] shape = "bare denominator" -> term("/", <<decorated(num), den>>)
          [] shape = "repeated decoration" ->
                term("/", <<decorated(decorated(num)), decorated(den)>>)
          [] shape = "missing part" -> term("/", <<decorated(num)>>)
          [] shape = "extra part" ->
                term("/", <<decorated(num), decorated(den), decorated(den)>>)
          [] shape = "other operator" ->
                term("*", <<decorated(num), decorated(den)>>)

\* SmtEval for Real::eval from format! on, for a result as_real does not
\* read: the rendering is parsed, and BigRational::new may panic.
Real_fallback(shape, sign, n, d) ==
    LET division_expr == Rendering(shape, sign \o decimal(n), decimal(d))
        out == parse_division(division_expr)
    IN  /\ TextGiven
        /\ io' = [NoText EXCEPT
                     !.op = "parse_division", !.input = division_expr,
                     !.res = out.res, !.value = out.value,
                     !.made = [shape |-> shape,
                               num |-> IF sign = <<>> THEN n ELSE 0 - n,
                               den |-> d, terms |-> <<>>]]
        /\ status' = IF out.res = "panic" THEN "panicked" ELSE status
        /\ UNCHANGED <<provers, solvers, last, net, saved, asked, steps,
                       instrumented, open, ev>>

\* execute_swine: the process is launched, or not, and what it printed,
\* a word between two other pieces of text, is classified.
swine_executed(launched, pre, word, post) ==
    LET stdout == pre \o word \o post IN
    /\ TextGiven
    /\ io' = [NoText EXCEPT
                 !.op = "execute_swine", !.input = stdout,
                 !.res = IF launched THEN execute_swine(stdout) ELSE "Err"]
    /\ UNCHANGED <<provers, solvers, status, last, net, saved, asked, steps,
                   instrumented, open, ev>>

\* The top-level terms of the texts filtered, each with whether it is a
\* universally quantified assertion or the declaration of exp.
TopLevelTerms ==
    LET declare(name) ==
            <<"(">> \o S_declare_fun \o <<" ">> \o name
            \o <<" ", "(", ")", " ">> \o S_Bool \o <<")">>
        kept(text) == [text |-> text, unsupported |-> FALSE]
        dropped(text) == [text |-> text, unsupported |-> TRUE]
    IN  {kept(RenderAssertion(f)) :
            f \in {False, Const("p"), Const("q"), Not(Const("p"))}}
        \cup {dropped(RenderAssertion(forall_const({"q"}, Const("q")))),
              dropped(declare(<<"e", "x", "p">>)),
              kept(declare(<<"e", "x", "p", "m">>)),
              kept(declare(<<"p">>)),
              kept(declare(<<"q">>)),
              kept(<<"(">> \o S_check_sat \o <<")">>)}

\* remove_lines_for_swine on a text of top-level terms
lines_removed(terms) ==
    LET input == Concat([i \in 1..Len(terms) |-> terms[i].text])
    IN  /\ TextGiven
        /\ io' = [NoText EXCEPT
                     !.op = "remove_lines_for_swine", !.input = input,
                     !.output = remove_lines_for_swine(input),
                     !.made = [shape |-> "terms", num |-> 0, den |-> 0,
                               terms |-> terms]]
        /\ UNCHANGED <<provers, solvers, status, last, net, saved, asked,
                       steps, instrumented, open, ev>>

(***************************************************************************)
(* Properties of the text functions.                                       *)
(***************************************************************************)
\* C17: when the rendering is "(/ N.0 D.0)" with integers N and D, D not
\* zero, the fallback returns Ok with a rational whose numerator and
\* denominator stand for exactly the quotient N/D.
C17_FallbackExact ==
    (io.op = "parse_division" /\ io.made.shape = "exact" /\ io.made.den # 0) =>
        /\ io.res = "Ok"
        /\ Number(io.value.denom) # 0
        /\ Number(io.value.numer) * io.made.den =
              io.made.num * Number(io.value.denom)

\* C17 witness: "(/ 10.0 3.0)" was parsed to ten thirds.
C17_Witness ==
    /\ io.op = "parse_division"
    /\ io.input = Rendering("exact", <<"1", "0">>, <<"3">>)
    /\ io.res = "Ok"
    /\ io.value.numer = <<"1", "0">>
    /\ io.value.denom = <<"3">>

\* C18: as claimed, every rendering that leaves the shape "(/ N.0 D.0)"
\* makes the fallback return a decode error.
C18_FallbackStrict ==
    (io.op = "parse_division" /\ io.made.shape # "exact") =>
        io.res = "ParseError"

\* C19: as claimed, the filter writes exactly the top-level terms that are
\* neither universally quantified assertions nor the declaration of exp,
\* unchanged and in their order.
C19_FilterExact ==
    io.op = "remove_lines_for_swine" =>
        io.output = Concat([i \in 1..Len(io.made.terms) |->
                              IF io.made.terms[i].unsupported THEN <<>>
                              ELSE io.made.terms[i].text])

\* C20: whatever a launched swine printed is classified as one of three
\* outcomes: Unsat when "unsat" occurs in it, otherwise Sat when "sat"
\* occurs in it, otherwise Unknown; a text with "unsat" is never Sat.
C20_Classification ==
    LET occurs(pat) ==
            \E i \in 1..(Len(io.input) + 1), j \in 0..Len(io.input) :
                SubSeq(io.input, i, j) = pat
    IN  (io.op = "execute_swine" /\ io.res # "Err") =>
            /\ io.res \in {"Unsat", "Sat", "Unknown"}
            /\ io.res = "Unsat" <=> occurs(S_unsat)
            /\ io.res = "Sat" <=> (occurs(S_sat) /\ ~occurs(S_unsat))
            /\ io.res = "Unknown" <=> ~occurs(S_sat)

\* C20 witness: a launched swine printed "unknown", a line break and
\* "unsat", and the outcome is Unsat.
C20_Witness ==
    /\ io.op = "execute_swine"
    /\ io.input = S_unknown \o <<"\n">> \o S_unsat
    /\ io.res = "Unsat"

(***************************************************************************)
(* Specifications.                                                         *)
(***************************************************************************)
\* A call of a run that is not bounded in length.
Free == UNCHANGED <<steps, wvars>>

\* A call of a run of at most MaxSteps calls.
Counted == steps < MaxSteps /\ steps' = steps + 1 /\ UNCHANGED wvars

\* The prover under use: scopes, assertions and checks.
Next ==
    \/ \E id \in ProverIds, value \in Formulas : add_assumption(id, value) /\ Free
    \/ \E id \in ProverIds, value \in Formulas : add_provable(id, value) /\ Free
    \/ \E id \in ProverIds : push(id) /\ Free
    \/ \E id \in ProverIds : pop(id) /\ Free
    \/ \E id \in ProverIds : check_proof(id) /\ Free
    \/ \E id \in ProverIds, assumptions \in AssumptionSlices :
          check_proof_assuming(id, assumptions) /\ Free

Spec == Init /\ [][Next]_vars

\* Runs of a bounded number of calls in which a prover is derived by
\* to_exists_forall and both provers go on being used.
NextEF ==
    \/ \E id \in ProverIds, value \in Formulas : add_assumption(id, value) /\ Counted
    \/ \E id \in ProverIds, value \in Formulas : add_provable(id, value) /\ Counted
    \/ \E id \in ProverIds : push(id) /\ Counted
    \/ \E id \in ProverIds : pop(id) /\ Counted
    \/ \E id \in ProverIds, universal \in (SUBSET Vars) \ {{}} :
          to_exists_forall(id, universal) /\ Counted

SpecEF == Init /\ [][NextEF]_vars

\* A call of a run of at most max calls on the model.
Within(max) == steps < max /\ steps' = steps + 1

InitModel == ProverInit({"Z3"}) /\ WitnessInit(Z3Models)

\* The model a counterexample handed out: evaluations of terms of the three
\* sorts, reads of function interpretations and resets.
NextModel ==
    \/ \E ast \in BoolTerms, produced \in BOOLEAN :
          Bool_eval(ast, produced, FALSE) /\ Within(MaxEvals)
    \/ \E ast \in IntTerms, produced \in BOOLEAN :
          Int_eval(ast, produced, FALSE) /\ Within(MaxEvals)
    \/ \E ast \in RealTerms, produced \in BOOLEAN :
          Real_eval(ast, produced, FALSE) /\ Within(MaxEvals)
    \/ \E f \in {D_f, D_g} : get_func_interp(f) /\ Within(MaxEvals)
    \/ reset_accessed /\ Within(MaxEvals)

SpecModel == InitModel /\ [][NextModel]_vars

\* Evaluations inside atomically calls, nested or not, whose closures end
\* with the first error or handle it.
NextAtomic ==
    \/ \E ast \in AtomicTerms, produced, handled \in BOOLEAN :
          Int_eval(ast, produced, handled) /\ Within(MaxCalls)
    \/ atomically_call /\ Within(MaxCalls)
    \/ \E handled \in BOOLEAN : atomically_return(handled) /\ Within(MaxCalls)
    \/ reset_accessed /\ Within(MaxCalls)

SpecAtomic == InitModel /\ [][NextAtomic]_vars

\* The rational fallback and the classification of swine's output, on
\* texts of their own.
NextText ==
    \/ \E shape \in {"exact", "bare numerator", "bare denominator",
                      "repeated decoration", "missing part", "extra part",
                      "other operator"},
          sign \in {<<>>, <<"-">>},
          n \in 0..MaxNumerator, d \in 0..MaxDenominator :
          Real_fallback(shape, sign, n, d)
    \/ \E launched \in BOOLEAN,
          pre \in {<<>>, <<"u", "n">>, S_unknown \o <<"\n">>},
          word \in {S_unsat, S_sat, S_unknown, <<>>, <<"s", "a">>},
          post \in {<<>>, <<"\n">>, <<"t">>, <<"\n">> \o S_sat} :
          swine_executed(launched, pre, word, post)

SpecText == Init /\ [][NextText]_vars

\* The filter for swine on texts of up to MaxTerms top-level terms.
NextFilter ==
    \E k \in 1..MaxTerms : \E terms \in [1..k -> TopLevelTerms] :
        lines_removed(terms)

SpecFilter == Init /\ [][NextFilter]_vars

====
